---- MODULE Spec2Model ----
(***************************************************************************)
(* Admission control (cmd/api/middleware.go, rateLimit), the background    *)
(* task launcher (helpers: background) and the graceful shutdown of        *)
(* serve() of the greenlight movie API.                                    *)
(*                                                                         *)
(* Time is counted in seconds. A token bucket of golang.org/x/time/rate is *)
(* kept as the number of tokens it holds at the current instant: the       *)
(* library refills min(burst, tokens + elapsed * rate) when it is          *)
(* consulted, which for whole seconds and whole rates is the value that    *)
(* refilling at every clock step gives.                                    *)
(***************************************************************************)
EXTENDS Integers, FiniteSets, Sequences, TLC

\* ------------------------------------------------------------------ bounds
\* per-client bucket: -max-individual-burst-req and -individual-req-fill-rate
MaxIndividualBurstReq == 2
IndividualReqFillRate == 1
\* the configured global bucket: -max-global-burst-req and -global-req-fill-rate
MaxGlobalBurstReq == 3
GlobalReqFillRate == 2
\* requests issued in the step-by-step (concurrent) specification
MaxIssued == 3
\* of these, the requests issued after the burst of LoadInit
MaxAfterLoad == 2
\* background(fn) calls
MaxTasks == 2
\* connections open at the same time
MaxConns == 1

\* ------------------------------------------------------- program constants
GlobalBurst == 100
GlobalFillRate == 25
SweepInterval == 60
IdleThreshold == 180
DrainTimeout == 30

\* the instants at which the program reads the clock
Instants == {0, 1, 60, 120, 180, 181}
\* client identities (realip.FromRequest) and request goroutines
Clients == {"ipA", "ipB"}
Reqs == {"r1", "r2"}
NoClient == "none"
\* background(fn) calls
Tasks == 1..MaxTasks
\* capacity of the quit channel: make(chan os.Signal, 1)
QuitCap == 1
\* signals the environment delivers
MaxSignals == 2
NoDeadline == 0 - 1
\* PATCH and PUT /v1/movies/:id requests in flight on one movie
Updaters == {"u1", "u2"}
\* updateMovieHandler (PATCH) and replaceMovieHandler (PUT)
Kinds == {"patch", "put"}
NoKind == "none"
\* successful updates of the movie
MaxVersion == 3
\* input.Title: the pointer is nil, or it points to one of these strings
NilTitle == "nil"
InputTitles == {"", "t1", "t2"}
\* no moviePtr yet
NoMovie == [version |-> 0, title |-> "none"]
\* request goroutines going through the middleware chain
ChainReqs == {"q1", "q2"}
\* requests the chain receives
MaxRequests == 3
\* the status a handler or a middleware below recoverPanic writes
HandlerStatuses == {200, 429}
\* no os.Exit yet
NoStatus == 0 - 1

Min(a, b) == IF a < b THEN a ELSE b

VARIABLES
  shouldRateLimit,  \* config.rateLimit.shouldRateLimit
  now,              \* the clock
  globalTokens,     \* tokens in globalLimiter
  registry,         \* ipClientInfoMap: ip -> clientInfo (or no entry)
  liveCount,        \* per ip, clientInfo structs created and not deleted from the map
  lastEvicted,      \* the ips the latest pass of the clean-up loop deleted
  mut,              \* holder of the mutex, or "free"
  sweepPc,          \* position of the clean-up goroutine
  sweepWake,        \* instant its time.Sleep ends
  pc,               \* position of each request goroutine in the rateLimit handler
  rip,              \* ip of each request in flight
  rexists,          \* each request's local "exists" (line 177)
  rfresh,           \* observation on a request waiting for the mutex: at its global check its client's entry was at most IdleThreshold old
  issued,           \* requests issued step by step since Init
  outcome,          \* result of the admission check completed last
  lastIp,           \* its client
  handled,          \* whether it called next.ServeHTTP
  wg,               \* appPtr.wg: the WaitGroup counter
  tpc,              \* position of each background(fn) call and its goroutine
  adds,             \* per call, wg.Add(1) executed
  dones,            \* per call, wg.Done() executed
  logged,           \* per call, logger.Error records of a recovered panic
  crashed,          \* a panic reached the top of a goroutine: the process died
  active,           \* connections the server is handling
  mainPc,           \* position of serve() in the main goroutine
  sigPc,            \* position of the signal goroutine of serve()
  quit,             \* signals buffered in the quit channel (capacity 1)
  signalsSent,      \* SIGINT/SIGTERM delivered to the process
  srvClosed,        \* srvPtr.Shutdown has been called
  deadline,         \* deadline of the Shutdown context
  shutdownErr,      \* what srvPtr.Shutdown returned
  serveResult,      \* what serve() returned
  exited,           \* main() called os.Exit
  listenErr,        \* what srvPtr.ListenAndServe returned (line 70)
  drains,           \* calls of srvPtr.Shutdown
  exitStatus,       \* the status main() gave os.Exit
  dbPresent,        \* the movies row of the movie exists
  dbVersion,        \* its version column
  dbTitle,          \* its title column
  upc,              \* position of each request in updateMovieHandler or replaceMovieHandler
  ukind,            \* the handler that serves it: "patch" or "put"
  umovie,           \* each request's *moviePtr: the row it read, then edited
  ustatus,          \* the HTTP status each request answered last
  cpc,              \* position of each request goroutine in metrics -> recoverPanic -> next
  cstatus,          \* the status line sent to its client, 0 while none is sent
  cclose,           \* its response carries the header Connection: close
  cpanic,           \* its goroutine is unwinding a panic
  received,         \* expvar total-requests-received
  responded,        \* expvar total_responses_sent
  panicLogs         \* logError records written by recoverPanic

gateVars == <<shouldRateLimit, now, globalTokens, registry, liveCount, lastEvicted, mut, sweepPc,
              sweepWake, pc, rip, rexists, rfresh, issued, outcome, lastIp, handled>>

taskVars == <<wg, tpc, adds, dones, logged, crashed>>

serveVars == <<mainPc, sigPc, quit, signalsSent, srvClosed, deadline, shutdownErr,
               serveResult, exited, listenErr, drains, exitStatus>>

lifeVars == <<taskVars, active, serveVars>>

movieVars == <<dbPresent, dbVersion, dbTitle, upc, ukind, umovie, ustatus>>

chainVars == <<cpc, cstatus, cclose, cpanic, received, responded, panicLogs>>

\* everything but the rate limiter, but the life of the process, but the
\* movie, but the middleware chain
offGate == <<lifeVars, movieVars, chainVars>>
offLife == <<gateVars, movieVars, chainVars>>
offMovie == <<gateVars, lifeVars, chainVars>>
offChain == <<gateVars, lifeVars, movieVars>>

vars == <<gateVars, lifeVars, movieVars, chainVars>>

\* ------------------------------------------------------------ token bucket
\* rate.Limiter.Allow: a token is available
LimiterAllows(tokens) == tokens >= 1

\* rate.Limiter.Allow: the bucket after a token was taken
LimiterTake(tokens) == tokens - 1

\* slip: a refill that is not capped at the burst
RefillUncapped(tokens, rate, burst, elapsed) == tokens + elapsed * rate

\* the lazily computed refill: min(burst, tokens + elapsed * rate)
Refill(tokens, rate, burst, elapsed) == Min(burst, tokens + elapsed * rate)

\* ---------------------------------------------------------------- registry
NoEntry == [present |-> FALSE, tokens |-> 0, lastSeen |-> 0]

\* the zero time.Time a fresh clientInfo holds before line 188 sets lastSeen
ZeroTime == 0 - (IdleThreshold + 1)

\* &clientInfo{limiterPtr: rate.NewLimiter(individualReqFillRate, maxIndividualBurstReq)}
NewClientInfo == [present |-> TRUE, tokens |-> MaxIndividualBurstReq, lastSeen |-> ZeroTime]

Exists(reg, ip) == reg[ip].present

\* slip: lastSeen is set when the entry is created and not afterwards
TouchOnCreate(reg, ip, t) ==
  IF reg[ip].lastSeen = ZeroTime THEN [reg EXCEPT ![ip].lastSeen = t] ELSE reg

\* ipClientInfoMap[ipAddr].lastSeen = time.Now()
Touch(reg, ip, t) == [reg EXCEPT ![ip].lastSeen = t]

\* slip: the client's token is never taken
ConsumeNothing(reg, ip) == reg

\* clientInfo.limiterPtr.Allow() succeeded
Consume(reg, ip) == [reg EXCEPT ![ip].tokens = LimiterTake(reg[ip].tokens)]

\* slip: ">=" for ">"
StaleAtThreshold(entry, t) == t - entry.lastSeen >= IdleThreshold

\* time.Since(clientInfo.lastSeen) > 3*time.Minute
Stale(entry, t) == t - entry.lastSeen > IdleThreshold

\* the entry of ip is in the map and was refreshed at most IdleThreshold ago
SeenLately(reg, ip, t) == reg[ip].present /\ ~Stale(reg[ip], t)

\* the sweep's loop over the map
Swept(reg, t) ==
  [ip \in Clients |-> IF reg[ip].present /\ Stale(reg[ip], t) THEN NoEntry ELSE reg[ip]]

\* slip: a lock that never waits
MutexIgnored(m) == TRUE

\* mut.Lock() returns only when nobody holds the mutex
MutexFree(m) == m = "free"

\* --------------------------------------------------------------------- Init
\* the rate limiter when rateLimit(next) has returned its handler
GateInit ==
  /\ shouldRateLimit \in BOOLEAN
  /\ now = 0
  /\ globalTokens = GlobalBurst
  /\ registry = [ip \in Clients |-> NoEntry]
  /\ liveCount = [ip \in Clients |-> 0]
  /\ lastEvicted = {}
  /\ mut = "free"
  /\ sweepPc = "sleep"
  /\ sweepWake = SweepInterval
  /\ pc = [r \in Reqs |-> "idle"]
  /\ rip = [r \in Reqs |-> NoClient]
  /\ rexists = [r \in Reqs |-> FALSE]
  /\ rfresh = [r \in Reqs |-> FALSE]
  /\ issued = 0
  /\ outcome = "None"
  /\ lastIp = NoClient
  /\ handled = FALSE

\* everything else when main() has built the application
RestInit ==
  /\ wg = 0
  /\ tpc = [t \in Tasks |-> "none"]
  /\ adds = [t \in Tasks |-> 0]
  /\ dones = [t \in Tasks |-> 0]
  /\ logged = [t \in Tasks |-> 0]
  /\ crashed = FALSE
  /\ active = 0
  /\ mainPc = "serving"
  /\ sigPc = "init"
  /\ quit = 0
  /\ signalsSent = 0
  /\ srvClosed = FALSE
  /\ deadline = NoDeadline
  /\ shutdownErr = "unset"
  /\ serveResult = "unset"
  /\ exited = FALSE
  /\ listenErr = "unset"
  /\ drains = 0
  /\ exitStatus = NoStatus
  /\ dbPresent = TRUE
  /\ dbVersion = 1
  /\ dbTitle = "t0"
  /\ upc = [u \in Updaters |-> "idle"]
  /\ ukind = [u \in Updaters |-> NoKind]
  /\ umovie = [u \in Updaters |-> NoMovie]
  /\ ustatus = [u \in Updaters |-> 0]
  /\ cpc = [q \in ChainReqs |-> "idle"]
  /\ cstatus = [q \in ChainReqs |-> 0]
  /\ cclose = [q \in ChainReqs |-> FALSE]
  /\ cpanic = [q \in ChainReqs |-> FALSE]
  /\ received = 0
  /\ responded = 0
  /\ panicLogs = 0

Init == GateInit /\ RestInit

\* tokens left in the global bucket after the burst below
LoadLeft == {0, 1}

\* the rate limiter after a burst: from the start, GlobalBurst - left requests
\* of ipA have gone through the handler one after another at instant 0, all
\* served by r1. The first MaxIndividualBurstReq were let through, the others
\* were answered by the client limiter, and every one took a global token.
\* MaxAfterLoad requests are still to be issued.
LoadInit ==
  /\ shouldRateLimit = TRUE
  /\ now = 0
  /\ globalTokens \in LoadLeft
  /\ registry = [ip \in Clients |->
       IF ip = "ipA" THEN [present |-> TRUE, tokens |-> 0, lastSeen |-> 0] ELSE NoEntry]
  /\ liveCount = [ip \in Clients |-> IF ip = "ipA" THEN 1 ELSE 0]
  /\ lastEvicted = {}
  /\ mut = "free"
  /\ sweepPc = "sleep"
  /\ sweepWake = SweepInterval
  /\ pc = [r \in Reqs |-> "idle"]
  /\ rip = [r \in Reqs |-> NoClient]
  /\ rexists = [r \in Reqs |-> r = "r1"]
  /\ rfresh = [r \in Reqs |-> FALSE]
  /\ issued = MaxIssued - MaxAfterLoad
  /\ outcome = "RejectedClient"
  /\ lastIp = "ipA"
  /\ handled = FALSE
  /\ RestInit

\* ------------------------------------------------------------------- clock
\* time passes; every bucket holds what its refill gives at the new instant
Tick ==
  \E t \in Instants :
    /\ t > now
    /\ now' = t
    /\ globalTokens' = Refill(globalTokens, GlobalFillRate, GlobalBurst, t - now)
    /\ registry' = [ip \in Clients |->
         IF registry[ip].present
         THEN [registry[ip] EXCEPT !.tokens =
                 Refill(registry[ip].tokens, IndividualReqFillRate, MaxIndividualBurstReq, t - now)]
         ELSE registry[ip]]
    /\ UNCHANGED <<shouldRateLimit, liveCount, lastEvicted, mut, sweepPc, sweepWake, pc, rip, rexists, rfresh,
                   issued, outcome, lastIp, handled>>

\* ------------------------------------- the handler, one statement at a time
\* slip: the refused request goes on to the registry (the return is missing)
ArriveNoReturn(r, ip) ==
  /\ pc[r] = "idle"
  /\ issued < MaxIssued
  /\ issued' = issued + 1
  /\ rip' = [rip EXCEPT ![r] = ip]
  /\ IF ~shouldRateLimit
     THEN /\ pc' = [pc EXCEPT ![r] = "next"]
          /\ UNCHANGED globalTokens
     ELSE IF ~LimiterAllows(globalTokens)
     THEN /\ pc' = [pc EXCEPT ![r] = "lock"]
          /\ UNCHANGED globalTokens
     ELSE /\ pc' = [pc EXCEPT ![r] = "lock"]
          /\ globalTokens' = LimiterTake(globalTokens)
  /\ rfresh' = [rfresh EXCEPT ![r] = pc'[r] = "lock" /\ SeenLately(registry, ip, now)]
  /\ UNCHANGED <<shouldRateLimit, now, registry, liveCount, lastEvicted, mut, sweepPc, sweepWake,
                 rexists, outcome, lastIp, handled>>

\* slip: the request passes the global check without taking the token
ArriveGlobalUntaken(r, ip) ==
  /\ pc[r] = "idle"
  /\ issued < MaxIssued
  /\ issued' = issued + 1
  /\ rip' = [rip EXCEPT ![r] = ip]
  /\ IF ~shouldRateLimit
     THEN /\ pc' = [pc EXCEPT ![r] = "next"]
          /\ UNCHANGED globalTokens
     ELSE IF ~LimiterAllows(globalTokens)
     THEN /\ pc' = [pc EXCEPT ![r] = "respG"]
          /\ UNCHANGED globalTokens
     ELSE /\ pc' = [pc EXCEPT ![r] = "lock"]
          /\ UNCHANGED globalTokens
  /\ rfresh' = [rfresh EXCEPT ![r] = pc'[r] = "lock" /\ SeenLately(registry, ip, now)]
  /\ UNCHANGED <<shouldRateLimit, now, registry, liveCount, lastEvicted, mut, sweepPc, sweepWake,
                 rexists, outcome, lastIp, handled>>

\* lines 152-157: the flag, then globalLimiter.Allow()
Arrive(r, ip) ==
  /\ pc[r] = "idle"
  /\ issued < MaxIssued
  /\ issued' = issued + 1
  /\ rip' = [rip EXCEPT ![r] = ip]
  /\ IF ~shouldRateLimit
     THEN /\ pc' = [pc EXCEPT ![r] = "next"]
          /\ UNCHANGED globalTokens
     ELSE IF ~LimiterAllows(globalTokens)
     THEN /\ pc' = [pc EXCEPT ![r] = "respG"]
          /\ UNCHANGED globalTokens
     ELSE /\ pc' = [pc EXCEPT ![r] = "lock"]
          /\ globalTokens' = LimiterTake(globalTokens)
  /\ rfresh' = [rfresh EXCEPT ![r] = pc'[r] = "lock" /\ SeenLately(registry, ip, now)]
  /\ UNCHANGED <<shouldRateLimit, now, registry, liveCount, lastEvicted, mut, sweepPc, sweepWake,
                 rexists, outcome, lastIp, handled>>

\* line 176: mut.Lock()
Lock(r) ==
  /\ pc[r] = "lock"
  /\ MutexFree(mut)
  /\ mut' = r
  /\ pc' = [pc EXCEPT ![r] = "check"]
  /\ rfresh' = [rfresh EXCEPT ![r] = FALSE]
  /\ UNCHANGED <<shouldRateLimit, now, globalTokens, registry, liveCount, lastEvicted, sweepPc,
                 sweepWake, rip, rexists, issued, outcome, lastIp, handled>>

\* line 177: _, exists := ipClientInfoMap[ipAddr]
CheckExists(r) ==
  /\ pc[r] = "check"
  /\ rexists' = [rexists EXCEPT ![r] = Exists(registry, rip[r])]
  /\ pc' = [pc EXCEPT ![r] = "create"]
  /\ UNCHANGED <<shouldRateLimit, now, globalTokens, registry, liveCount, lastEvicted, mut, sweepPc,
                 sweepWake, rip, rfresh, issued, outcome, lastIp, handled>>

\* lines 178-184: the map gets a fresh clientInfo when !exists
Create(r) ==
  /\ pc[r] = "create"
  /\ IF rexists[r]
     THEN UNCHANGED <<registry, liveCount>>
     ELSE /\ registry' = [registry EXCEPT ![rip[r]] = NewClientInfo]
          /\ liveCount' = [liveCount EXCEPT ![rip[r]] = @ + 1]
  /\ pc' = [pc EXCEPT ![r] = "touch"]
  /\ UNCHANGED <<shouldRateLimit, now, globalTokens, lastEvicted, mut, sweepPc, sweepWake, rip,
                 rexists, rfresh, issued, outcome, lastIp, handled>>

\* line 188: lastSeen = time.Now(); on a missing key the nil pointer panics
TouchEntry(r) ==
  /\ pc[r] = "touch"
  /\ IF Exists(registry, rip[r])
     THEN /\ registry' = Touch(registry, rip[r], now)
          /\ pc' = [pc EXCEPT ![r] = "allow"]
     ELSE /\ pc' = [pc EXCEPT ![r] = "panic"]
          /\ UNCHANGED registry
  /\ UNCHANGED <<shouldRateLimit, now, globalTokens, liveCount, lastEvicted, mut, sweepPc, sweepWake,
                 rip, rexists, rfresh, issued, outcome, lastIp, handled>>

\* slip: the token is taken from every bucket of the registry
AllowClientChargesEveryone(r) ==
  /\ pc[r] = "allow"
  /\ IF ~Exists(registry, rip[r])
     THEN /\ pc' = [pc EXCEPT ![r] = "panic"]
          /\ UNCHANGED registry
     ELSE IF LimiterAllows(registry[rip[r]].tokens)
     THEN /\ registry' = [c \in Clients |->
               IF registry[c].present /\ LimiterAllows(registry[c].tokens)
               THEN Consume(registry, c)[c] ELSE registry[c]]
          /\ pc' = [pc EXCEPT ![r] = "unlockA"]
     ELSE /\ pc' = [pc EXCEPT ![r] = "unlockR"]
          /\ UNCHANGED registry
  /\ UNCHANGED <<shouldRateLimit, now, globalTokens, liveCount, lastEvicted, mut, sweepPc, sweepWake,
                 rip, rexists, rfresh, issued, outcome, lastIp, handled>>

\* slip: the rejected request is charged a client token too
AllowClientChargesRejected(r) ==
  /\ pc[r] = "allow"
  /\ IF ~Exists(registry, rip[r])
     THEN /\ pc' = [pc EXCEPT ![r] = "panic"]
          /\ UNCHANGED registry
     ELSE IF LimiterAllows(registry[rip[r]].tokens)
     THEN /\ registry' = Consume(registry, rip[r])
          /\ pc' = [pc EXCEPT ![r] = "unlockA"]
     ELSE /\ pc' = [pc EXCEPT ![r] = "unlockR"]
          /\ registry' = Consume(registry, rip[r])
  /\ UNCHANGED <<shouldRateLimit, now, globalTokens, liveCount, lastEvicted, mut, sweepPc, sweepWake,
                 rip, rexists, rfresh, issued, outcome, lastIp, handled>>

\* lines 192-196: clientInfo.limiterPtr.Allow()
AllowClient(r) ==
  /\ pc[r] = "allow"
  /\ IF ~Exists(registry, rip[r])
     THEN /\ pc' = [pc EXCEPT ![r] = "panic"]
          /\ UNCHANGED registry
     ELSE IF LimiterAllows(registry[rip[r]].tokens)
     THEN /\ registry' = Consume(registry, rip[r])
          /\ pc' = [pc EXCEPT ![r] = "unlockA"]
     ELSE /\ pc' = [pc EXCEPT ![r] = "unlockR"]
          /\ UNCHANGED registry
  /\ UNCHANGED <<shouldRateLimit, now, globalTokens, liveCount, lastEvicted, mut, sweepPc, sweepWake,
                 rip, rexists, rfresh, issued, outcome, lastIp, handled>>

\* slip: the request its client's limiter rejected gives the global token back
UnlockRefundsRejected(r) ==
  /\ pc[r] \in {"unlockA", "unlockR"}
  /\ mut' = "free"
  /\ globalTokens' = IF pc[r] = "unlockR" THEN Min(GlobalBurst, globalTokens + 1) ELSE globalTokens
  /\ pc' = [pc EXCEPT ![r] = IF pc[r] = "unlockA" THEN "next" ELSE "respC"]
  /\ UNCHANGED <<shouldRateLimit, now, registry, liveCount, lastEvicted, sweepPc,
                 sweepWake, rip, rexists, rfresh, issued, outcome, lastIp, handled>>

\* slip: the early return of the rejected request forgets mut.Unlock()
UnlockOnlyWhenAllowed(r) ==
  /\ pc[r] \in {"unlockA", "unlockR"}
  /\ mut' = IF pc[r] = "unlockA" THEN "free" ELSE mut
  /\ pc' = [pc EXCEPT ![r] = IF pc[r] = "unlockA" THEN "next" ELSE "respC"]
  /\ UNCHANGED <<shouldRateLimit, now, globalTokens, registry, liveCount, lastEvicted, sweepPc,
                 sweepWake, rip, rexists, rfresh, issued, outcome, lastIp, handled>>

\* lines 197 and 202: mut.Unlock()
Unlock(r) ==
  /\ pc[r] \in {"unlockA", "unlockR"}
  /\ mut' = "free"
  /\ pc' = [pc EXCEPT ![r] = IF pc[r] = "unlockA" THEN "next" ELSE "respC"]
  /\ UNCHANGED <<shouldRateLimit, now, globalTokens, registry, liveCount, lastEvicted, sweepPc,
                 sweepWake, rip, rexists, rfresh, issued, outcome, lastIp, handled>>

\* lines 155, 198 and 204: the 429 responses, or next.ServeHTTP
Respond(r) ==
  /\ pc[r] \in {"respG", "respC", "next"}
  /\ outcome' = CASE pc[r] = "respG" -> "RejectedGlobal"
                  [] pc[r] = "respC" -> "RejectedClient"
                  [] OTHER -> "Allowed"
  /\ handled' = (pc[r] = "next")
  /\ lastIp' = rip[r]
  /\ pc' = [pc EXCEPT ![r] = "idle"]
  /\ rip' = [rip EXCEPT ![r] = NoClient]
  /\ UNCHANGED <<shouldRateLimit, now, globalTokens, registry, liveCount, lastEvicted, mut, sweepPc,
                 sweepWake, rexists, rfresh, issued>>

\* slip: the clean-up goroutine is started outside the shouldRateLimit test
SweepLockUnguarded ==
  /\ sweepPc = "sleep"
  /\ now >= sweepWake
  /\ MutexFree(mut)
  /\ mut' = "sweep"
  /\ sweepPc' = "scan"
  /\ UNCHANGED <<shouldRateLimit, now, globalTokens, registry, liveCount, lastEvicted, sweepWake, pc,
                 rip, rexists, rfresh, issued, outcome, lastIp, handled>>

\* slip: the clean-up loop scans the map without mut.Lock()
SweepWithoutLock ==
  /\ shouldRateLimit
  /\ sweepPc = "sleep"
  /\ now >= sweepWake
  /\ sweepPc' = "scan"
  /\ UNCHANGED <<shouldRateLimit, now, globalTokens, registry, liveCount, lastEvicted, sweepWake, pc,
                 rip, rexists, rfresh, issued, outcome, lastIp, handled, mut>>

\* lines 134-136: the sleep is over, mut.Lock()
SweepLock ==
  /\ shouldRateLimit
  /\ sweepPc = "sleep"
  /\ now >= sweepWake
  /\ MutexFree(mut)
  /\ mut' = "sweep"
  /\ sweepPc' = "scan"
  /\ UNCHANGED <<shouldRateLimit, now, globalTokens, registry, liveCount, lastEvicted, sweepWake, pc,
                 rip, rexists, rfresh, issued, outcome, lastIp, handled>>

\* lines 140-144: delete every stale entry
SweepScan ==
  /\ sweepPc = "scan"
  /\ registry' = Swept(registry, now)
  /\ lastEvicted' = {ip \in Clients : registry[ip].present /\ ~Swept(registry, now)[ip].present}
  /\ liveCount' = [ip \in Clients |-> IF Swept(registry, now)[ip].present THEN liveCount[ip] ELSE 0]
  /\ sweepPc' = "unlock"
  /\ UNCHANGED <<shouldRateLimit, now, globalTokens, mut, sweepWake, pc, rip, rexists, rfresh,
                 issued, outcome, lastIp, handled>>

\* line 145, then line 134 again: mut.Unlock() and the next sleep
SweepUnlock ==
  /\ sweepPc = "unlock"
  /\ mut' = "free"
  /\ sweepPc' = "sleep"
  /\ sweepWake' = now + SweepInterval
  /\ UNCHANGED <<shouldRateLimit, now, globalTokens, registry, liveCount, lastEvicted, pc, rip,
                 rexists, rfresh, issued, outcome, lastIp, handled>>

ConcNext ==
  \/ Tick /\ UNCHANGED offGate
  \/ \E r \in Reqs, ip \in Clients : Arrive(r, ip) /\ UNCHANGED offGate
  \/ \E r \in Reqs : Lock(r) /\ UNCHANGED offGate
  \/ \E r \in Reqs : CheckExists(r) /\ UNCHANGED offGate
  \/ \E r \in Reqs : Create(r) /\ UNCHANGED offGate
  \/ \E r \in Reqs : TouchEntry(r) /\ UNCHANGED offGate
  \/ \E r \in Reqs : AllowClient(r) /\ UNCHANGED offGate
  \/ \E r \in Reqs : Unlock(r) /\ UNCHANGED offGate
  \/ \E r \in Reqs : Respond(r) /\ UNCHANGED offGate
  \/ SweepLock /\ UNCHANGED offGate
  \/ SweepScan /\ UNCHANGED offGate
  \/ SweepUnlock /\ UNCHANGED offGate

ConcSpec == Init /\ [][ConcNext]_vars

\* the same steps, started after the burst
LoadSpec == LoadInit /\ [][ConcNext]_vars

\* the steps of a request goroutine that holds the mutex or has released it
ReqStep(r) ==
  (CheckExists(r) \/ Create(r) \/ TouchEntry(r) \/ AllowClient(r) \/ Unlock(r) \/ Respond(r))
    /\ UNCHANGED offGate

\* the steps of the clean-up goroutine while it holds the mutex
SweepStep == (SweepScan \/ SweepUnlock) /\ UNCHANGED offGate

\* the Go scheduler runs every runnable goroutine, and sync.Mutex hands the
\* lock to a goroutine that keeps waiting for it (starvation mode)
ConcFairness ==
  /\ \A r \in Reqs : WF_vars(ReqStep(r))
  /\ \A r \in Reqs : SF_vars(Lock(r) /\ UNCHANGED offGate)
  /\ WF_vars(SweepStep)
  /\ SF_vars(SweepLock /\ UNCHANGED offGate)

\* the clock of the fair runs: the first sleep of the clean-up loop ends
SleepEnds == Tick /\ now' = SweepInterval

FairConcNext ==
  \/ SleepEnds /\ UNCHANGED offGate
  \/ \E r \in Reqs, ip \in Clients : Arrive(r, ip) /\ UNCHANGED offGate
  \/ \E r \in Reqs : Lock(r) /\ UNCHANGED offGate
  \/ \E r \in Reqs : ReqStep(r)
  \/ SweepLock /\ UNCHANGED offGate
  \/ SweepStep

FairConcSpec == Init /\ [][FairConcNext]_vars /\ ConcFairness

\* ---------------------------------------------------------- background(fn)
\* the process runs: no panic reached the top of a goroutine, no os.Exit
Alive == ~crashed /\ ~exited

\* slip: the goroutine is launched without wg.Add(1) in the launcher
BackgroundAddMissing(t) ==
  /\ Alive
  /\ active > 0
  /\ tpc[t] = "none"
  /\ tpc' = [tpc EXCEPT ![t] = "added"]
  /\ UNCHANGED <<wg, adds, dones, logged, crashed, active, serveVars>>

\* line 268, in the calling handler: appPtr.wg.Add(1)
BackgroundAdd(t) ==
  /\ Alive
  /\ active > 0
  /\ tpc[t] = "none"
  /\ wg' = wg + 1
  /\ adds' = [adds EXCEPT ![t] = @ + 1]
  /\ tpc' = [tpc EXCEPT ![t] = "added"]
  /\ UNCHANGED <<dones, logged, crashed, active, serveVars>>

\* line 269: go func() { ... }(); the goroutine starts and calls fn()
BackgroundGo(t) ==
  /\ Alive
  /\ tpc[t] = "added"
  /\ tpc' = [tpc EXCEPT ![t] = "running"]
  /\ UNCHANGED <<wg, adds, dones, logged, crashed, active, serveVars>>

\* line 280: fn() returns
FnReturns(t) ==
  /\ Alive
  /\ tpc[t] = "running"
  /\ tpc' = [tpc EXCEPT ![t] = "returned"]
  /\ UNCHANGED <<wg, adds, dones, logged, crashed, active, serveVars>>

\* line 280: fn() panics
FnPanics(t) ==
  /\ Alive
  /\ tpc[t] = "running"
  /\ tpc' = [tpc EXCEPT ![t] = "panicked"]
  /\ UNCHANGED <<wg, adds, dones, logged, crashed, active, serveVars>>

\* slip: wg.Done() after fn() instead of in the deferred function
BackgroundDoneAfterFn(t) ==
  /\ Alive
  /\ tpc[t] \in {"returned", "panicked"}
  /\ logged' = [logged EXCEPT ![t] = IF tpc[t] = "panicked" THEN @ + 1 ELSE @]
  /\ wg' = IF tpc[t] = "panicked" THEN wg ELSE wg - 1
  /\ dones' = [dones EXCEPT ![t] = IF tpc[t] = "panicked" THEN @ ELSE @ + 1]
  /\ tpc' = [tpc EXCEPT ![t] = IF tpc[t] = "panicked" THEN "recovered" ELSE "finished"]
  /\ UNCHANGED <<adds, crashed, active, serveVars>>

\* slip: wg.Done() both in the deferred function and in a defer of its own
BackgroundDoneTwice(t) ==
  /\ Alive
  /\ tpc[t] \in {"returned", "panicked"}
  /\ logged' = [logged EXCEPT ![t] = IF tpc[t] = "panicked" THEN @ + 1 ELSE @]
  /\ wg' = wg - 2
  /\ dones' = [dones EXCEPT ![t] = @ + 2]
  /\ tpc' = [tpc EXCEPT ![t] = IF tpc[t] = "panicked" THEN "recovered" ELSE "finished"]
  /\ UNCHANGED <<adds, crashed, active, serveVars>>

\* slip: the deferred function does not call recover(); after wg.Done() the
\* panic goes on to the top of the goroutine and the runtime ends the process
BackgroundNoRecover(t) ==
  /\ Alive
  /\ tpc[t] \in {"returned", "panicked"}
  /\ wg' = wg - 1
  /\ dones' = [dones EXCEPT ![t] = @ + 1]
  /\ crashed' = (tpc[t] = "panicked")
  /\ tpc' = [tpc EXCEPT ![t] = IF tpc[t] = "panicked" THEN "panicked" ELSE "finished"]
  /\ UNCHANGED <<adds, logged, active, serveVars>>

\* lines 270-276, the deferred function: err := recover() ends the panic, a
\* non-nil err goes to logger.Error, then wg.Done(); the goroutine ends
BackgroundDeferred(t) ==
  /\ Alive
  /\ tpc[t] \in {"returned", "panicked"}
  /\ LET err == IF tpc[t] = "panicked" THEN "panic" ELSE "nil"
     IN  /\ logged' = [logged EXCEPT ![t] = IF err # "nil" THEN @ + 1 ELSE @]
         /\ tpc' = [tpc EXCEPT ![t] = IF err # "nil" THEN "recovered" ELSE "finished"]
  /\ wg' = wg - 1
  /\ dones' = [dones EXCEPT ![t] = @ + 1]
  /\ UNCHANGED <<adds, crashed, active, serveVars>>

\* ------------------------------------------------------------- connections
\* the accept loop takes a connection
ConnOpen ==
  /\ Alive
  /\ mainPc = "serving"
  /\ ~srvClosed
  /\ active < MaxConns
  /\ active' = active + 1
  /\ UNCHANGED <<taskVars, serveVars>>

\* a handler finishes and its connection goes idle
ConnClose ==
  /\ Alive
  /\ active > 0
  /\ active' = active - 1
  /\ UNCHANGED <<taskVars, serveVars>>

\* ------------------------------------------------------------------ serve()
\* lines 32-37: quit := make(chan os.Signal, 1); signal.Notify(quit, SIGINT, SIGTERM)
SignalNotify ==
  /\ Alive
  /\ sigPc = "init"
  /\ sigPc' = "wait"
  /\ UNCHANGED <<taskVars, active, mainPc, quit, signalsSent, srvClosed, deadline,
                 shutdownErr, serveResult, exited,
                 listenErr, drains, exitStatus>>

\* the environment sends SIGINT or SIGTERM; signal.Notify relays it without
\* blocking, so it is dropped when the buffer is full
SendSignal ==
  /\ Alive
  /\ sigPc # "init"
  /\ signalsSent < MaxSignals
  /\ signalsSent' = signalsSent + 1
  /\ quit' = Min(QuitCap, quit + 1)
  /\ UNCHANGED <<taskVars, active, mainPc, sigPc, srvClosed, deadline, shutdownErr,
                 serveResult, exited,
                 listenErr, drains, exitStatus>>

\* slip: the goroutine loops back to the receive from quit after a drain
ReceiveSignalAgain ==
  /\ Alive
  /\ sigPc \in {"wait", "done"}
  /\ quit > 0
  /\ quit' = quit - 1
  /\ deadline' = now + DrainTimeout
  /\ srvClosed' = TRUE
  /\ sigPc' = "shutdown"
  /\ drains' = drains + 1
  /\ UNCHANGED <<taskVars, active, mainPc, signalsSent, shutdownErr, serveResult, exited,
                 listenErr, exitStatus>>

\* lines 41-58: s := <-quit, the 30 s context, and srvPtr.Shutdown(ctx) begins
ReceiveSignal ==
  /\ Alive
  /\ sigPc = "wait"
  /\ quit > 0
  /\ quit' = quit - 1
  /\ deadline' = now + DrainTimeout
  /\ srvClosed' = TRUE
  /\ sigPc' = "shutdown"
  /\ drains' = drains + 1
  /\ UNCHANGED <<taskVars, active, mainPc, signalsSent, shutdownErr, serveResult, exited,
                 listenErr, exitStatus>>

\* slip: Shutdown returns without waiting for the active connections
ShutdownReturnsEarly ==
  /\ Alive
  /\ sigPc = "shutdown"
  /\ \E e \in {"nil", "closeError"} : shutdownErr' = e
  /\ sigPc' = "send"
  /\ UNCHANGED <<taskVars, active, mainPc, quit, signalsSent, srvClosed, deadline,
                 serveResult, exited, listenErr, drains, exitStatus>>

\* line 58: Shutdown returns once no connection is active: nil, or the error
\* of closing the listeners
ShutdownReturns ==
  /\ Alive
  /\ sigPc = "shutdown"
  /\ active = 0
  /\ \E e \in {"nil", "closeError"} : shutdownErr' = e
  /\ sigPc' = "send"
  /\ UNCHANGED <<taskVars, active, mainPc, quit, signalsSent, srvClosed, deadline,
                 serveResult, exited,
                 listenErr, drains, exitStatus>>

\* line 58: the context expires first and Shutdown returns its error
ShutdownTimesOut ==
  /\ Alive
  /\ sigPc = "shutdown"
  /\ now >= deadline
  /\ shutdownErr' = "deadlineExceeded"
  /\ sigPc' = "send"
  /\ UNCHANGED <<taskVars, active, mainPc, quit, signalsSent, srvClosed, deadline,
                 serveResult, exited,
                 listenErr, drains, exitStatus>>

\* lines 70-79: ListenAndServe returns http.ErrServerClosed after Shutdown was called
ListenReturnsClosed ==
  /\ Alive
  /\ mainPc = "serving"
  /\ srvClosed
  /\ mainPc' = "receive"
  /\ listenErr' = "ErrServerClosed"
  /\ UNCHANGED <<taskVars, active, sigPc, quit, signalsSent, srvClosed, deadline,
                 shutdownErr, serveResult, exited,
                 drains, exitStatus>>

\* lines 70-78: ListenAndServe returns another error; serve() logs and returns it
ListenReturnsFault ==
  /\ Alive
  /\ mainPc = "serving"
  /\ ~srvClosed
  /\ serveResult' = "listenError"
  /\ mainPc' = "returned"
  /\ listenErr' = "listenError"
  /\ UNCHANGED <<taskVars, active, sigPc, quit, signalsSent, srvClosed, deadline,
                 shutdownErr, exited,
                 drains, exitStatus>>

\* slip: the value received from shutdownErrorCh is dropped and serve() returns nil
ReceiveDropsError ==
  /\ Alive
  /\ sigPc = "send"
  /\ mainPc = "receive"
  /\ serveResult' = "nil"
  /\ mainPc' = "returned"
  /\ sigPc' = "done"
  /\ UNCHANGED <<taskVars, active, quit, signalsSent, srvClosed, deadline, shutdownErr,
                 exited, listenErr, drains, exitStatus>>

\* lines 63 and 84-92: the unbuffered shutdownErrorCh hands err over; serve() returns it
ReceiveShutdownError ==
  /\ Alive
  /\ sigPc = "send"
  /\ mainPc = "receive"
  /\ serveResult' = shutdownErr
  /\ mainPc' = "returned"
  /\ sigPc' = "done"
  /\ UNCHANGED <<taskVars, active, quit, signalsSent, srvClosed, deadline, shutdownErr,
                 exited,
                 listenErr, drains, exitStatus>>

\* main(): serve() has returned; the error is logged and os.Exit(1) ends every goroutine
MainExit ==
  /\ Alive
  /\ mainPc = "returned"
  /\ exited' = TRUE
  /\ exitStatus' = 1
  /\ UNCHANGED <<taskVars, active, mainPc, sigPc, quit, signalsSent, srvClosed, deadline,
                 shutdownErr, serveResult,
                 listenErr, drains>>

\* the clock, while the Shutdown context is the only reader of it
DrainTick == sigPc = "shutdown" /\ Alive /\ Tick

LifeNext ==
  \/ DrainTick /\ UNCHANGED offGate
  \/ \E t \in Tasks : BackgroundAdd(t) /\ UNCHANGED offLife
  \/ \E t \in Tasks : BackgroundGo(t) /\ UNCHANGED offLife
  \/ \E t \in Tasks : FnReturns(t) /\ UNCHANGED offLife
  \/ \E t \in Tasks : FnPanics(t) /\ UNCHANGED offLife
  \/ \E t \in Tasks : BackgroundDeferred(t) /\ UNCHANGED offLife
  \/ ConnOpen /\ UNCHANGED offLife
  \/ ConnClose /\ UNCHANGED offLife
  \/ SignalNotify /\ UNCHANGED offLife
  \/ SendSignal /\ UNCHANGED offLife
  \/ ReceiveSignal /\ UNCHANGED offLife
  \/ ShutdownReturns /\ UNCHANGED offLife
  \/ ShutdownTimesOut /\ UNCHANGED offLife
  \/ ListenReturnsClosed /\ UNCHANGED offLife
  \/ ListenReturnsFault /\ UNCHANGED offLife
  \/ ReceiveShutdownError /\ UNCHANGED offLife
  \/ MainExit /\ UNCHANGED offLife

LifeSpec == Init /\ [][LifeNext]_vars

\* ------------------------------------------------ the spec's ShutdownState
\* Stopped once serve() has returned, Draining once the signal goroutine has
\* taken a signal from quit, Running before
ShutdownState ==
  IF mainPc = "returned" THEN "Stopped"
  ELSE IF sigPc \in {"shutdown", "send", "done"} THEN "Draining"
  ELSE "Running"

\* --------------------------------- updateMovieHandler, replaceMovieHandler
\* ValidateMovie, for the title: it is not empty
ValidTitle(title) == title # ""

\* what each handler answers when UpdateMovie returns ErrEditConflict:
\* updateMovieHandler has the case (editConflictResponse), replaceMovieHandler
\* has only ErrRecordNotFound and falls to serverErrorResponse
ConflictStatus(k) == IF k = "patch" THEN 409 ELSE 500

\* GetMovie(id) copies the row; 404 when there is none
ReadMovie(u, k) ==
  /\ upc[u] = "idle"
  /\ ukind' = [ukind EXCEPT ![u] = k]
  /\ IF dbPresent
     THEN /\ dbVersion < MaxVersion
          /\ umovie' = [umovie EXCEPT ![u] = [version |-> dbVersion, title |-> dbTitle]]
          /\ upc' = [upc EXCEPT ![u] = "edit"]
          /\ UNCHANGED ustatus
     ELSE /\ ustatus' = [ustatus EXCEPT ![u] = 404]
          /\ UNCHANGED <<umovie, upc>>
  /\ UNCHANGED <<dbPresent, dbVersion, dbTitle>>

\* PATCH: a field the input left nil keeps the value that was read;
\* PUT: moviePtr.Title = input.Title, a string ("" when the field is absent)
EditMovie(u, t) ==
  /\ upc[u] = "edit"
  /\ ukind[u] = "put" => t # NilTitle
  /\ umovie' = [umovie EXCEPT ![u].title = IF t = NilTitle THEN @ ELSE t]
  /\ upc' = [upc EXCEPT ![u] = "validate"]
  /\ UNCHANGED <<dbPresent, dbVersion, dbTitle, ustatus, ukind>>

\* ValidateMovie; 422 when the edited movie is not valid
Validate(u) ==
  /\ upc[u] = "validate"
  /\ IF ValidTitle(umovie[u].title)
     THEN /\ upc' = [upc EXCEPT ![u] = "update"]
          /\ UNCHANGED <<ustatus, umovie>>
     ELSE /\ ustatus' = [ustatus EXCEPT ![u] = 422]
          /\ upc' = [upc EXCEPT ![u] = "idle"]
          /\ umovie' = [umovie EXCEPT ![u] = NoMovie]
  /\ UNCHANGED <<dbPresent, dbVersion, dbTitle, ukind>>

\* MovieModel.UpdateMovie and the handler's switch on its error: one
\* statement UPDATE ... SET version = version + 1 WHERE id = $5 AND
\* version = $6 RETURNING *; no row means ErrEditConflict
UpdateMovie(u) ==
  /\ upc[u] = "update"
  /\ IF dbPresent /\ dbVersion = umovie[u].version
     THEN /\ dbTitle' = umovie[u].title
          /\ dbVersion' = dbVersion + 1
          /\ umovie' = [umovie EXCEPT ![u].version = dbVersion + 1]
          /\ ustatus' = [ustatus EXCEPT ![u] = 200]
     ELSE /\ ustatus' = [ustatus EXCEPT ![u] = ConflictStatus(ukind[u])]
          /\ UNCHANGED <<dbTitle, dbVersion, umovie>>
  /\ upc' = [upc EXCEPT ![u] = "done"]
  /\ UNCHANGED <<dbPresent, ukind>>

\* the handler has answered; the goroutine is free for the next request
UpdateDone(u) ==
  /\ upc[u] = "done"
  /\ upc' = [upc EXCEPT ![u] = "idle"]
  /\ umovie' = [umovie EXCEPT ![u] = NoMovie]
  /\ UNCHANGED <<dbPresent, dbVersion, dbTitle, ustatus, ukind>>

\* MovieModel.Delete: DELETE FROM movies WHERE id = $1
DeleteMovie ==
  /\ dbPresent
  /\ dbPresent' = FALSE
  /\ UNCHANGED <<dbVersion, dbTitle, upc, ukind, umovie, ustatus>>

MovieNext ==
  \/ \E u \in Updaters, k \in Kinds : ReadMovie(u, k) /\ UNCHANGED offMovie
  \/ \E u \in Updaters, t \in InputTitles \cup {NilTitle} : EditMovie(u, t) /\ UNCHANGED offMovie
  \/ \E u \in Updaters : Validate(u) /\ UNCHANGED offMovie
  \/ \E u \in Updaters : UpdateMovie(u) /\ UNCHANGED offMovie
  \/ \E u \in Updaters : UpdateDone(u) /\ UNCHANGED offMovie
  \/ DeleteMovie /\ UNCHANGED offMovie

MovieSpec == Init /\ [][MovieNext]_vars

\* ------------------------------------------------- metrics and recoverPanic
\* metrics, lines 438-441: totalRequestsReceived.Add(1), the wrapped writer,
\* the deferred function; then recoverPanic registers its own deferred
\* function and calls next.ServeHTTP
MetricsEnter(q) ==
  /\ cpc[q] = "idle"
  /\ received < MaxRequests
  /\ received' = received + 1
  /\ cstatus' = [cstatus EXCEPT ![q] = 0]
  /\ cclose' = [cclose EXCEPT ![q] = FALSE]
  /\ cpanic' = [cpanic EXCEPT ![q] = FALSE]
  /\ cpc' = [cpc EXCEPT ![q] = "serve"]
  /\ UNCHANGED <<responded, panicLogs>>

\* below recoverPanic: a handler or a middleware writes the response header
ServeWrites(q, st) ==
  /\ cpc[q] = "serve"
  /\ cstatus[q] = 0
  /\ cstatus' = [cstatus EXCEPT ![q] = st]
  /\ UNCHANGED <<cpc, cclose, cpanic, received, responded, panicLogs>>

\* line 102: next.ServeHTTP returns
ServeReturns(q) ==
  /\ cpc[q] = "serve"
  /\ cstatus[q] # 0
  /\ cpc' = [cpc EXCEPT ![q] = "recoverPanic"]
  /\ UNCHANGED <<cstatus, cclose, cpanic, received, responded, panicLogs>>

\* line 102: next.ServeHTTP panics. The panics below recoverPanic (readJSON,
\* contextGetUser, a nil dereference in a handler) come before the response:
\* writeJSON writes the header as its last act and every handler and
\* middleware returns right after it, so no header has been written yet
ServePanics(q) ==
  /\ cpc[q] = "serve"
  /\ cstatus[q] = 0
  /\ cpanic' = [cpanic EXCEPT ![q] = TRUE]
  /\ cpc' = [cpc EXCEPT ![q] = "recoverPanic"]
  /\ UNCHANGED <<cstatus, cclose, received, responded, panicLogs>>

\* slip: the Connection header is not set
RecoverPanicNoClose(q) ==
  /\ cpc[q] = "recoverPanic"
  /\ IF cpanic[q]
     THEN /\ cpanic' = [cpanic EXCEPT ![q] = FALSE]
          /\ panicLogs' = panicLogs + 1
          /\ cstatus' = [cstatus EXCEPT ![q] = IF @ = 0 THEN 500 ELSE @]
          /\ UNCHANGED cclose
     ELSE UNCHANGED <<cpanic, cclose, panicLogs, cstatus>>
  /\ cpc' = [cpc EXCEPT ![q] = "metrics"]
  /\ UNCHANGED <<received, responded>>

\* recoverPanic, lines 84-100, the deferred function: recover() ends a panic;
\* then Header().Set("Connection", "close") and serverErrorResponse, which
\* logs the error and writes 500. A header that was already sent cannot be
\* changed: net/http ignores both the Set and the second WriteHeader.
RecoverPanicDeferred(q) ==
  /\ cpc[q] = "recoverPanic"
  /\ IF cpanic[q]
     THEN /\ cpanic' = [cpanic EXCEPT ![q] = FALSE]
          /\ panicLogs' = panicLogs + 1
          /\ cclose' = [cclose EXCEPT ![q] = (cstatus[q] = 0)]
          /\ cstatus' = [cstatus EXCEPT ![q] = IF @ = 0 THEN 500 ELSE @]
     ELSE UNCHANGED <<cpanic, cclose, panicLogs, cstatus>>
  /\ cpc' = [cpc EXCEPT ![q] = "metrics"]
  /\ UNCHANGED <<received, responded>>

\* slip: totalResponsesSent.Add(1) only for a response without error status
MetricsDeferredOnSuccess(q) ==
  /\ cpc[q] = "metrics"
  /\ responded' = IF cstatus[q] = 200 THEN responded + 1 ELSE responded
  /\ cpc' = [cpc EXCEPT ![q] = "idle"]
  /\ UNCHANGED <<cstatus, cclose, cpanic, received, panicLogs>>

\* metrics, lines 446-452, the deferred function: totalResponsesSent.Add(1)
MetricsDeferred(q) ==
  /\ cpc[q] = "metrics"
  /\ responded' = responded + 1
  /\ cpc' = [cpc EXCEPT ![q] = "idle"]
  /\ UNCHANGED <<cstatus, cclose, cpanic, received, panicLogs>>

ChainNext ==
  \/ \E q \in ChainReqs : MetricsEnter(q) /\ UNCHANGED offChain
  \/ \E q \in ChainReqs, st \in HandlerStatuses : ServeWrites(q, st) /\ UNCHANGED offChain
  \/ \E q \in ChainReqs : ServeReturns(q) /\ UNCHANGED offChain
  \/ \E q \in ChainReqs : ServePanics(q) /\ UNCHANGED offChain
  \/ \E q \in ChainReqs : RecoverPanicDeferred(q) /\ UNCHANGED offChain
  \/ \E q \in ChainReqs : MetricsDeferred(q) /\ UNCHANGED offChain

ChainSpec == Init /\ [][ChainNext]_vars

\* =================================================================== claims

\* C1: with rate limiting on, a request that finds no token in the global
\* bucket goes straight to the RejectedGlobal answer: it never takes the
\* mutex, and from its arrival to its answer its own steps leave the whole
\* registry as it was (no entry created, no lastSeen or token count changed),
\* and the downstream handler is not called. This holds whatever the other
\* goroutines do meanwhile, and for a client that has no entry.
C1_GlobalRejectLeavesRegistry ==
  [][\A r \in Reqs :
       /\ (pc[r] = "idle" /\ pc'[r] # "idle" /\ shouldRateLimit /\ globalTokens < 1)
            => /\ pc'[r] = "respG"
               /\ registry' = registry
               /\ liveCount' = liveCount
               /\ globalTokens' = globalTokens
               /\ mut' = mut
       /\ (pc[r] = "respG" /\ pc'[r] # "respG")
            => /\ pc'[r] = "idle"
               /\ outcome' = "RejectedGlobal"
               /\ lastIp' = rip[r]
               /\ ~handled'
               /\ registry' = registry
               /\ liveCount' = liveCount
               /\ mut' = mut]_vars

\* C1 witness: a client without an entry was rejected by the global limiter
\* while another request, which took the last global token, waits for the mutex
C1_Witness ==
  /\ shouldRateLimit
  /\ outcome = "RejectedGlobal"
  /\ lastIp = "ipB"
  /\ ~registry["ipB"].present
  /\ registry["ipA"].present
  /\ globalTokens = 0
  /\ pc["r1"] = "lock" /\ rip["r1"] = "ipA"
  /\ pc["r2"] = "idle"

\* C2: with rate limiting on, a request that has taken its global token finds
\* or creates its client's entry (a new one holds the full configured burst),
\* and at the client check it is let through exactly when that bucket holds
\* at least one token at that moment, and then exactly one token leaves the
\* bucket; otherwise it is rejected and the bucket keeps its tokens. Its
\* answer is Allowed in the first case and RejectedClient in the second, and
\* the downstream handler runs exactly when the answer is Allowed.
C2_ClientDecision ==
  [][\A r \in Reqs :
       /\ (pc[r] = "create" /\ pc'[r] # "create" /\ ~rexists[r])
            => (registry'[rip[r]].present /\ registry'[rip[r]].tokens = MaxIndividualBurstReq)
       /\ (pc[r] = "allow" /\ pc'[r] # "allow")
            => /\ registry[rip[r]].present
               /\ registry'[rip[r]].present
               /\ pc'[r] \in {"unlockA", "unlockR"}
               /\ (pc'[r] = "unlockA") <=> (registry[rip[r]].tokens >= 1)
               /\ registry[rip[r]].tokens >= 1
                    => registry'[rip[r]].tokens = registry[rip[r]].tokens - 1
               /\ registry[rip[r]].tokens < 1 => registry' = registry
       /\ (pc[r] = "unlockA" /\ pc'[r] # "unlockA") => pc'[r] = "next"
       /\ (pc[r] = "unlockR" /\ pc'[r] # "unlockR") => pc'[r] = "respC"
       /\ (pc[r] = "next" /\ pc'[r] # "next") => (outcome' = "Allowed" /\ handled')
       /\ (pc[r] = "respC" /\ pc'[r] # "respC") => (outcome' = "RejectedClient" /\ ~handled')
       /\ (handled' /\ ~handled) => \E q \in Reqs : pc[q] = "next" /\ pc'[q] = "idle"]_vars

\* C2 witness: after the burst a request of ipA passed the global check,
\* found its client's bucket empty under the mutex and was rejected: it has
\* released the mutex and is about to answer 429, nothing reached the
\* downstream handler
C2_Witness ==
  \E r \in Reqs :
    /\ shouldRateLimit
    /\ pc[r] = "respC"
    /\ rip[r] = "ipA"
    /\ registry["ipA"].present
    /\ registry["ipA"].tokens = 0
    /\ registry["ipA"].lastSeen = now
    /\ mut = "free"
    /\ ~handled
    /\ issued = MaxIssued - MaxAfterLoad + 1

\* C3: with rate limiting off every request goes straight to the downstream
\* handler and is Allowed, whatever came before and whatever runs beside it;
\* the global bucket keeps its tokens, the registry stays empty, the mutex is
\* never taken and no clean-up pass runs.
C3_DisabledAllowsAll ==
  ~shouldRateLimit =>
    /\ outcome \in {"None", "Allowed"}
    /\ outcome = "Allowed" => handled
    /\ \A r \in Reqs : pc[r] \in {"idle", "next"}
    /\ globalTokens = GlobalBurst
    /\ \A ip \in Clients : ~registry[ip].present /\ liveCount[ip] = 0
    /\ sweepPc = "sleep"
    /\ sweepWake = SweepInterval
    /\ lastEvicted = {}
    /\ mut = "free"

\* C3 witness: with rate limiting off, minutes after the start, a request was
\* served while another one was on its way to the handler
C3_Witness ==
  /\ ~shouldRateLimit
  /\ outcome = "Allowed"
  /\ handled
  /\ lastIp = "ipA"
  /\ now >= SweepInterval
  /\ issued = MaxIssued
  /\ pc["r2"] = "next" /\ rip["r2"] = "ipA"

\* positions of the handler after the entry was looked up or created
AfterCreate == {"touch", "allow", "unlockA", "unlockR"}
\* positions after the per-client check
AfterCheck == {"unlockA", "unlockR", "next", "respC"}

\* C4: in every interleaving of requests and clean-up passes the map holds
\* at most one clientInfo per ip (every struct created for an ip and not
\* deleted is the one in the map), a request that is past the creation step
\* finds its ip in the map, and with rate limiting on, as long as no entry can
\* be stale, every request that finished its check has left an entry for its ip.
C4_OneEntryPerClient ==
  /\ \A ip \in Clients : liveCount[ip] = (IF registry[ip].present THEN 1 ELSE 0)
  /\ \A r \in Reqs : pc[r] \in AfterCreate => registry[rip[r]].present
  /\ \A r \in Reqs : pc[r] # "panic"
  /\ (shouldRateLimit /\ now <= IdleThreshold) =>
       \A r \in Reqs : pc[r] \in AfterCheck => registry[rip[r]].present

\* C4 witness: two requests of distinct first-time clients were in the handler
\* together and both entries exist
C4_Witness ==
  /\ shouldRateLimit
  /\ pc["r1"] \in AfterCheck
  /\ pc["r2"] \in AfterCheck
  /\ rip["r1"] # rip["r2"]
  /\ issued = 2
  /\ \A ip \in Clients : registry[ip].present /\ liveCount[ip] = 1

\* the step in which the clean-up pass scans the map (lines 140-144)
Scanning == sweepPc = "scan" /\ sweepPc' = "unlock"

\* C5: an entry leaves the map only in the scan of a clean-up pass and only
\* when its lastSeen is more than IdleThreshold seconds old; the scan deletes
\* every such entry and keeps every other entry as it is.
C5_SweepEvictsExactlyStale ==
  [][/\ \A ip \in Clients :
          (registry[ip].present /\ ~registry'[ip].present)
            => (Scanning /\ now - registry[ip].lastSeen > IdleThreshold)
     /\ Scanning =>
          \A ip \in Clients :
            registry[ip].present =>
              IF now - registry[ip].lastSeen > IdleThreshold
              THEN ~registry'[ip].present
              ELSE registry'[ip] = registry[ip]]_vars

\* C5 witness: the pass at second 181 deleted the entry last seen at second 0
\* and kept the one last seen at second 1, while a request of the deleted
\* client waits for the mutex the pass still holds
C5_Witness ==
  /\ now = 181
  /\ sweepPc = "unlock"
  /\ mut = "sweep"
  /\ lastEvicted = {"ipA"}
  /\ ~registry["ipA"].present
  /\ registry["ipB"].present
  /\ registry["ipB"].lastSeen = 1
  /\ pc["r1"] = "lock" /\ rip["r1"] = "ipA"

\* positions of a background(fn) call whose goroutine has ended
Ended == {"finished", "recovered"}
\* positions between wg.Add(1) and wg.Done()
InFlight == {"added", "running", "returned", "panicked"}

\* C6: every background(fn) call has executed wg.Add(1) exactly once as soon
\* as it is launched, and wg.Done() exactly once when its goroutine has ended,
\* after a normal return and after a panic alike, and never before.
C6_AddOnceDoneOnce ==
  \A t \in Tasks :
    /\ adds[t] = (IF tpc[t] = "none" THEN 0 ELSE 1)
    /\ dones[t] = (IF tpc[t] \in Ended THEN 1 ELSE 0)

\* C6 witness: a call whose fn panicked has one Add and one Done
C6_Witness ==
  \E t \in Tasks : tpc[t] = "recovered" /\ adds[t] = 1 /\ dones[t] = 1

\* C7: the WaitGroup counter is never negative, equals the number of calls
\* launched and not yet finished, and is 0 whenever every launched task has
\* finished.
C7_CounterTracksTasks ==
  /\ wg >= 0
  /\ wg = Cardinality({t \in Tasks : tpc[t] \in InFlight})
  /\ (\A t \in Tasks : tpc[t] \in Ended \cup {"none"}) => wg = 0

\* C7 witness: all tasks were launched and have ended, one of them by a
\* panic, and the counter is back at 0
C7_Witness ==
  /\ wg = 0
  /\ \A t \in Tasks : tpc[t] \in Ended
  /\ \E t \in Tasks : tpc[t] = "recovered"

\* C8: a panic of fn ends inside its own goroutine: the step that handles it
\* logs it once and ends the task, the process stays alive, and no other
\* task, no connection and nothing of serve() changes.
C8_PanicContained ==
  [][\A t \in Tasks :
       (tpc[t] = "panicked" /\ tpc'[t] # "panicked")
         => /\ tpc'[t] = "recovered"
            /\ logged'[t] = logged[t] + 1
            /\ \A u \in Tasks \ {t} : tpc'[u] = tpc[u] /\ logged'[u] = logged[u]
            /\ UNCHANGED <<active, serveVars>>]_vars
  /\ [](~crashed)

\* C8 witness: a panic was recovered and logged while the server keeps
\* serving and another task keeps running
C8_Witness ==
  /\ \E t \in Tasks : tpc[t] = "recovered" /\ logged[t] = 1
  /\ \E u \in Tasks : tpc[u] = "running"
  /\ mainPc = "serving"
  /\ ~crashed /\ ~exited

\* C9: ShutdownState changes only Running -> Draining, by taking a signal
\* from quit, and Draining -> Stopped.
C9_OnlyForwardTransitions ==
  [][ShutdownState' # ShutdownState
       => \/ ShutdownState = "Running" /\ ShutdownState' = "Draining" /\ quit' < quit
          \/ ShutdownState = "Draining" /\ ShutdownState' = "Stopped"]_vars

\* C10: serve() goes from Draining to Stopped only when Shutdown has returned
\* and the WaitGroup counter is 0.
C10_StopsAfterDrainAndTasks ==
  [][(ShutdownState = "Draining" /\ ShutdownState' = "Stopped")
       => (shutdownErr # "unset" /\ wg = 0)]_vars

\* C11: serve() has returned only after it received the result of Shutdown
\* on shutdownErrorCh, whether ListenAndServe ended because of a signal or
\* because of an unrelated fault.
C11_ServeWaitsForDrain ==
  mainPc = "returned" => (sigPc = "done" /\ shutdownErr # "unset")

\* C12: when serve() has returned, its result is nil exactly when
\* ListenAndServe ended with http.ErrServerClosed and Shutdown returned nil;
\* when ListenAndServe ended with any other error the result is that error,
\* and otherwise the result is what Shutdown returned.
C12_ServeOutcome ==
  mainPc = "returned" =>
    /\ listenErr \in {"ErrServerClosed", "listenError"}
    /\ (serveResult = "nil") <=> (listenErr = "ErrServerClosed" /\ shutdownErr = "nil")
    /\ listenErr # "ErrServerClosed" => serveResult = listenErr
    /\ listenErr = "ErrServerClosed" =>
         (serveResult = shutdownErr /\ shutdownErr \in {"nil", "closeError", "deadlineExceeded"})

\* C12 witness: the drain ran into its deadline with a connection still
\* active, and serve() returned that error
C12_Witness ==
  /\ mainPc = "returned"
  /\ listenErr = "ErrServerClosed"
  /\ shutdownErr = "deadlineExceeded"
  /\ serveResult = "deadlineExceeded"
  /\ active > 0

\* C13: srvPtr.Shutdown is called at most once in the life of the process;
\* once a signal has been taken from quit, the delivery of a further signal
\* changes nothing but the count of signals and the content of quit (no
\* second drain, no change of position, of the Shutdown result or of the
\* deadline), the result of serve(), once set, never changes, and a serve()
\* that has returned after a drain stays so without another drain.
C13_DrainOnce ==
  /\ [](drains <= 1)
  /\ [][(signalsSent' # signalsSent /\ drains >= 1)
          => UNCHANGED <<drains, sigPc, mainPc, srvClosed, deadline, shutdownErr,
                         serveResult, listenErr, exited, exitStatus, active, taskVars>>]_vars
  /\ [][serveResult # "unset" => serveResult' = serveResult]_vars
  /\ [][(ShutdownState = "Stopped" /\ drains >= 1)
          => (drains' = drains /\ ShutdownState' = "Stopped")]_vars

\* C13 witness: serve() has returned after its one drain and a signal that
\* came after the first one was taken sits in quit, unread
C13_Witness ==
  /\ mainPc = "returned"
  /\ sigPc = "done"
  /\ drains = 1
  /\ signalsSent = MaxSignals
  /\ quit = 1
  /\ serveResult = "nil"

\* C16: once main() has called os.Exit, the status is 0 when serve() returned
\* nil and non-zero when serve() returned an error.
C16_ExitStatusFollowsServe ==
  exited => (exitStatus = 0 <=> serveResult = "nil")

\* C15: in every reachable state the global bucket holds between 0 and
\* GlobalBurst tokens and the bucket of every client in the map holds between
\* 0 and MaxIndividualBurstReq tokens, whatever requests (allowed or
\* rejected), refills and clean-up passes came before and in whatever order
\* their steps interleave.
C15_BucketsWithinCapacity ==
  /\ 0 <= globalTokens /\ globalTokens <= GlobalBurst
  /\ \A ip \in Clients :
       registry[ip].present =>
         (0 <= registry[ip].tokens /\ registry[ip].tokens <= MaxIndividualBurstReq)

\* C15 witness: a minute after the burst the global bucket and ipA's bucket
\* had refilled to their capacities and no further; ipB then emptied its new
\* bucket
C15_Witness ==
  /\ shouldRateLimit
  /\ now = SweepInterval
  /\ globalTokens = GlobalBurst - MaxAfterLoad
  /\ registry["ipA"].present /\ registry["ipA"].tokens = MaxIndividualBurstReq
  /\ registry["ipB"].present /\ registry["ipB"].tokens = MaxIndividualBurstReq - MaxAfterLoad
  /\ registry["ipB"].lastSeen = SweepInterval

\* positions of the handler between mut.Lock() and the answer
PastGlobal == {"check", "create", "touch", "allow", "unlockA", "unlockR", "next", "respC"}

\* C14: with rate limiting on, a request reaches the registry, and so the
\* downstream handler, only through the global check, where it finds at least
\* one token and takes exactly one; no step of a request adds a token to the
\* global bucket; the bucket never holds less than 0, and it gains tokens only
\* when time passes, never more than the refill and never beyond GlobalBurst.
\* Summed over any run: the requests let through are at most GlobalBurst plus
\* the tokens refilled, whoever the clients are and whatever their own
\* buckets would allow.
C14_AllowedWithinGlobalSupply ==
  /\ [][\A r \in Reqs :
          shouldRateLimit =>
            /\ (pc[r] # "lock" /\ pc'[r] = "lock")
                 => (pc[r] = "idle" /\ globalTokens >= 1 /\ globalTokens' = globalTokens - 1)
            /\ (pc[r] \notin PastGlobal /\ pc'[r] \in PastGlobal) => pc[r] = "lock"
            /\ (handled' /\ pc[r] # "idle" /\ pc'[r] = "idle") => pc[r] = "next"]_vars
  /\ [][now' = now => globalTokens' <= globalTokens]_vars
  /\ [][globalTokens' > globalTokens
          => /\ now' > now
             /\ globalTokens' - globalTokens <= (now' - now) * GlobalFillRate
             /\ globalTokens' <= GlobalBurst]_vars
  /\ [](globalTokens >= 0)

\* C14 witness: after the burst one more request of ipA took the last global
\* token, and ipB, whose own bucket would offer a full burst, was refused by
\* the global limiter
C14_Witness ==
  /\ shouldRateLimit
  /\ now = 0
  /\ globalTokens = 0
  /\ issued = MaxIssued
  /\ outcome = "RejectedGlobal"
  /\ lastIp = "ipB"
  /\ ~registry["ipB"].present
  /\ \A r \in Reqs : pc[r] = "idle"

\* the version a request that reached the UPDATE had read: the statement's
\* RETURNING * puts the new version into the moviePtr of the winner
ReadVersion(u) == IF ustatus[u] = 200 THEN umovie[u].version - 1 ELSE umovie[u].version

\* C17: the UPDATE of a request succeeds (200) exactly when the row exists
\* with the version the request read, and then the version grows by exactly
\* 1 and the row holds what the request wrote; otherwise the request is
\* answered 409 and the row stays as it is. The version changes in no other
\* way. So of two requests that read the same version and both ran their
\* UPDATE, at most one succeeded, the other was answered 409, and as long as
\* nobody wrote after them the row holds the winner's title.
C17_OptimisticUpdate ==
  /\ [][\A u \in Updaters :
          (upc[u] = "update" /\ upc'[u] = "done")
            => IF dbPresent /\ dbVersion = umovie[u].version
               THEN /\ ustatus'[u] = 200
                    /\ dbVersion' = dbVersion + 1
                    /\ dbTitle' = umovie[u].title
               ELSE /\ ustatus'[u] = 409
                    /\ UNCHANGED <<dbPresent, dbVersion, dbTitle>>]_vars
  /\ [][dbVersion' # dbVersion
          => /\ dbVersion' = dbVersion + 1
             /\ \E u \in Updaters : upc[u] = "update" /\ ustatus'[u] = 200]_vars
  /\ [](\A u, v \in Updaters :
          (u # v /\ upc[u] = "done" /\ upc[v] = "done" /\ ReadVersion(u) = ReadVersion(v))
            => /\ ~(ustatus[u] = 200 /\ ustatus[v] = 200)
               /\ ustatus[u] = 200 =>
                    /\ ustatus[v] = 409
                    /\ (dbPresent /\ dbVersion = ReadVersion(u) + 1) => dbTitle = umovie[u].title)

\* positions of the handler between mut.Lock() and mut.Unlock()
Holding == {"check", "create", "touch", "allow", "unlockA", "unlockR"}

\* the goroutines inside a critical section of the registry
InCritical ==
  {r \in Reqs : pc[r] \in Holding} \cup (IF sweepPc \in {"scan", "unlock"} THEN {"sweep"} ELSE {})

\* C18: at most one goroutine (a request or the clean-up loop) is between
\* mut.Lock() and mut.Unlock() at any time and it is the holder of the mutex,
\* and the map entries are created, refreshed, consumed and deleted only by
\* the goroutine that holds the mutex.
C18_RegistryMutualExclusion ==
  /\ [](Cardinality(InCritical) <= 1)
  /\ [](\A x \in InCritical : mut = x)
  /\ [](mut # "free" => mut \in InCritical)
  /\ [][(registry' # registry /\ now' = now)
          => (mut # "free" /\ mut' = mut /\ mut \in InCritical)]_vars

\* C18 witness: the clean-up loop is scanning the map while both requests
\* wait at mut.Lock()
C18_Witness ==
  /\ sweepPc = "scan"
  /\ mut = "sweep"
  /\ pc["r1"] = "lock"
  /\ pc["r2"] = "lock"
  /\ \E ip \in Clients : registry[ip].present

\* C19: a request holds the mutex at no position outside lines 176-202: not
\* when it writes the 429 of a client rejection, not when it calls
\* next.ServeHTTP, not when it is rejected by the global limiter; the clean-up
\* loop does not hold it while asleep. Under fair scheduling every request
\* that waits at mut.Lock() gets the mutex and leaves the handler's critical
\* section with the mutex released, and a clean-up pass that is due gets the
\* mutex, releases it and sleeps again.
C19_MutexAlwaysReleased ==
  /\ [](\A r \in Reqs : pc[r] \notin Holding => mut # r)
  /\ [](sweepPc = "sleep" => mut # "sweep")
  /\ \A r \in Reqs : (pc[r] = "lock") ~> (pc[r] \in {"next", "respC"} /\ mut # r)
  /\ (shouldRateLimit /\ sweepPc = "sleep" /\ now >= sweepWake)
       ~> (sweepPc = "sleep" /\ now < sweepWake /\ mut # "sweep")

\* C19 witness: an allowed request is about to call next.ServeHTTP with the
\* mutex already released, while the other request waits at mut.Lock() and a
\* clean-up pass is due
C19_Witness ==
  /\ pc["r1"] = "next"
  /\ pc["r2"] = "lock"
  /\ mut = "free"
  /\ sweepPc = "sleep"
  /\ now >= sweepWake
  /\ shouldRateLimit

\* the clean-up pass deletes the entry of ip in this step
Evicted(ip) == registry[ip].present /\ ~registry'[ip].present

\* C20 as stated: every request that passes the global check refreshes its
\* client's lastSeen to the current time, and consequently a client whose
\* requests pass the global check at intervals of at most IdleThreshold is
\* never evicted: no entry is deleted while a request of its client, which
\* passed the global check when the entry was at most IdleThreshold old, is on
\* its way to the refresh.
C20_ActiveClientNeverEvicted ==
  /\ [][\A r \in Reqs :
          (pc[r] = "touch" /\ pc'[r] # "touch")
            => (registry'[rip[r]].present /\ registry'[rip[r]].lastSeen = now)]_vars
  /\ [][\A ip \in Clients :
          Evicted(ip) => ~\E r \in Reqs : pc[r] = "lock" /\ rip[r] = ip /\ rfresh[r]]_vars

\* C20, amended: with rate limiting on, every request that passed the global
\* check goes on, once it holds the mutex, to set its client's lastSeen to
\* the time of that step (line 188), whether the entry existed before or was
\* just created and whether the request is then let through or rejected;
\* lastSeen of an entry is written by nothing else; outside the mutex every
\* entry carries the time of a refresh; and an entry leaves the map only when
\* its lastSeen is more than IdleThreshold old. So an entry that is refreshed
\* at intervals of at most IdleThreshold is never evicted, while a request
\* that still waits for the mutex does not protect its client's entry.
C20_LastSeenRefreshed ==
  /\ [][\A r \in Reqs :
          /\ (pc[r] = "lock" /\ pc'[r] # "lock") => pc'[r] = "check"
          /\ (pc[r] = "check" /\ pc'[r] # "check") => pc'[r] = "create"
          /\ (pc[r] = "create" /\ pc'[r] # "create") => pc'[r] = "touch"
          /\ (pc[r] = "touch" /\ pc'[r] # "touch")
               => /\ pc'[r] = "allow"
                  /\ registry'[rip[r]].present
                  /\ registry'[rip[r]].lastSeen = now
          /\ (pc[r] = "allow" /\ pc'[r] # "allow")
               => /\ pc'[r] \in {"unlockA", "unlockR"}
                  /\ registry'[rip[r]].lastSeen = registry[rip[r]].lastSeen]_vars
  /\ [][\A ip \in Clients :
          (registry[ip].present /\ registry'[ip].present
             /\ registry'[ip].lastSeen # registry[ip].lastSeen)
            => /\ registry'[ip].lastSeen = now
               /\ \E r \in Reqs : pc[r] = "touch" /\ rip[r] = ip /\ pc'[r] = "allow"]_vars
  /\ [](mut = "free" =>
          \A ip \in Clients : registry[ip].present =>
            (0 <= registry[ip].lastSeen /\ registry[ip].lastSeen <= now))
  /\ [][\A ip \in Clients : Evicted(ip) => now - registry[ip].lastSeen > IdleThreshold]_vars

\* C20 witness: ipA, last refreshed at second 0, passed the global check at
\* second 180 and was still waiting for the mutex when the clean-up pass of
\* second 181 deleted its entry; the request then created the entry anew and
\* set its lastSeen to 181
C20_Witness ==
  /\ shouldRateLimit
  /\ now = 181
  /\ lastEvicted = {"ipA"}
  /\ sweepPc = "sleep"
  /\ pc["r1"] = "allow" /\ rip["r1"] = "ipA" /\ ~rexists["r1"]
  /\ registry["ipA"].present
  /\ registry["ipA"].lastSeen = 181
  /\ registry["ipA"].tokens = MaxIndividualBurstReq

\* positions of a background(fn) call whose goroutine has started and not ended
Started == {"running", "returned", "panicked"}

\* C21: wg.Add(1) is a step of the launcher, taken before the goroutine
\* exists: the step that starts the goroutine finds the increment done, fn
\* runs only with its own increment counted, and the counter is above 0 in
\* every state where a launched task has not finished.
C21_AddBeforeStart ==
  /\ [](\A t \in Tasks : tpc[t] \in Started => (adds[t] = 1 /\ wg >= 1))
  /\ []((\E t \in Tasks : tpc[t] \in InFlight) => wg > 0)
  /\ [][\A t \in Tasks :
          (tpc[t] = "none" /\ tpc'[t] # "none")
            => (tpc'[t] = "added" /\ wg' = wg + 1 /\ adds'[t] = 1)]_vars
  /\ [][\A t \in Tasks :
          (tpc'[t] = "running" /\ tpc[t] # "running")
            => (tpc[t] = "added" /\ adds[t] = 1 /\ wg >= 1 /\ wg' = wg)]_vars

\* C21 witness: a drain is in progress while a task is registered whose
\* goroutine has not started yet; the counter already counts it
C21_Witness ==
  /\ sigPc = "shutdown"
  /\ \E t \in Tasks : tpc[t] = "added" /\ adds[t] = 1
  /\ \A t \in Tasks : tpc[t] \in {"none", "added"}
  /\ wg >= 1

\* C22: the signal goroutine never stands at its send on shutdownErrorCh
\* when serve() has already returned (nobody would receive), and it leaves
\* the send only by handing the Shutdown result to the receive of serve().
C22_SendAlwaysReceived ==
  /\ [](sigPc = "send" => mainPc # "returned")
  /\ [][(sigPc = "send" /\ sigPc' # "send")
          => (sigPc' = "done" /\ mainPc = "receive" /\ mainPc' = "returned")]_vars

\* what the claims about the drain share: once Shutdown was called no
\* connection is accepted, no step of the signal goroutine changes the
\* number of active connections, and the Shutdown context ends DrainTimeout
\* seconds after the signal was taken
DrainFrame ==
  /\ [][srvClosed => active' <= active]_vars
  /\ [][sigPc' # sigPc => active' = active]_vars
  /\ [][(sigPc = "wait" /\ sigPc' = "shutdown")
          => (srvClosed' /\ deadline' = now + DrainTimeout)]_vars

\* C23 as stated: after the signal the drain refuses new connections, does
\* not interrupt the active ones, and returns exactly when none is active
\* any more, with nil, or when the 30 s deadline has passed, with the deadline
\* error.
C23_DrainNilOrDeadline ==
  /\ DrainFrame
  /\ [][(sigPc = "shutdown" /\ sigPc' # "shutdown")
          => \/ active = 0 /\ shutdownErr' = "nil"
             \/ now >= deadline /\ shutdownErr' = "deadlineExceeded"]_vars

\* C23 amended: as above, but when no connection is active any more Shutdown
\* returns nil or the error of closing the listeners.
C23_DrainBehaviour ==
  /\ DrainFrame
  /\ [][(sigPc = "shutdown" /\ sigPc' # "shutdown")
          => \/ active = 0 /\ shutdownErr' \in {"nil", "closeError"}
             \/ now >= deadline /\ shutdownErr' = "deadlineExceeded"]_vars

\* C23 witness: the signal was taken at second 0 with a connection being
\* served, the connection finished, and Shutdown returned nil at second 1,
\* before the deadline
C23_Witness ==
  /\ sigPc = "send"
  /\ shutdownErr = "nil"
  /\ deadline = DrainTimeout
  /\ now = 1
  /\ active = 0
  /\ srvClosed

\* C24: a SIGINT/SIGTERM sent after signal.Notify is either still in quit or
\* has been taken by the signal goroutine and has started the drain, and the
\* process never ends with a delivered signal that started no drain.
C24_SignalNotDropped ==
  /\ signalsSent >= 1 => (quit >= 1 \/ drains >= 1)
  /\ (exited /\ signalsSent >= 1) => drains >= 1

\* C25: the global bucket has the configured capacity and refill rate (it
\* starts full at MaxGlobalBurstReq, never holds more, and a refill adds
\* elapsed * GlobalReqFillRate up to that capacity), and every per-client
\* bucket has the configured per-client capacity and refill rate.
C25_LimitsFromConfiguration ==
  /\ [](globalTokens <= MaxGlobalBurstReq)
  /\ []((now = 0 /\ outcome = "None") => globalTokens = MaxGlobalBurstReq)
  /\ [][now' > now
          => globalTokens' = Min(MaxGlobalBurstReq,
                                 globalTokens + (now' - now) * GlobalReqFillRate)]_vars
  /\ [](\A ip \in Clients : registry[ip].present => registry[ip].tokens <= MaxIndividualBurstReq)
  /\ [][\A ip \in Clients :
          (now' > now /\ registry[ip].present)
            => registry'[ip].tokens =
                 Min(MaxIndividualBurstReq,
                     registry[ip].tokens + (now' - now) * IndividualReqFillRate)]_vars

\* C26: a bucket loses tokens only in the step of a request that takes one
\* from it: when time passes, the global bucket and every client bucket hold
\* min(burst, tokens + elapsed * rate), which is no less than before and no
\* more than the burst; the step in which the global limiter refuses a
\* request leaves the global bucket as it was, and the step in which a
\* client's bucket refuses a request leaves that bucket as it was.
C26_NoConsumptionNoDecrease ==
  /\ [][now' > now
          => /\ globalTokens' = Min(GlobalBurst, globalTokens + (now' - now) * GlobalFillRate)
             /\ globalTokens' >= globalTokens /\ globalTokens' <= GlobalBurst
             /\ \A ip \in Clients :
                  registry[ip].present
                    => /\ registry'[ip].tokens >= registry[ip].tokens
                       /\ registry'[ip].tokens <= MaxIndividualBurstReq
                       /\ registry'[ip].tokens =
                            Min(MaxIndividualBurstReq,
                                registry[ip].tokens + (now' - now) * IndividualReqFillRate)]_vars
  /\ [][\A r \in Reqs :
          /\ (pc[r] = "idle" /\ pc'[r] = "respG") => globalTokens' = globalTokens
          /\ (pc[r] = "allow" /\ pc'[r] = "unlockR")
               => (registry[rip[r]].present /\ registry'[rip[r]].tokens = registry[rip[r]].tokens)]_vars
  /\ [][globalTokens' < globalTokens
          => \E r \in Reqs : pc[r] = "idle" /\ pc'[r] = "lock"]_vars
  /\ [][\A ip \in Clients :
          (registry[ip].present /\ registry'[ip].present
             /\ registry'[ip].tokens < registry[ip].tokens)
            => \E r \in Reqs : rip[r] = ip /\ pc[r] = "allow" /\ pc'[r] = "unlockA"]_vars

\* C26 witness: after the burst a request of ipA took the last global token
\* and was rejected by ipA's empty bucket, which stayed at 0, and a second
\* request of ipA has been refused by the empty global bucket, which stayed
\* at 0
C26_Witness ==
  /\ shouldRateLimit
  /\ now = 0
  /\ issued = MaxIssued
  /\ outcome = "RejectedClient"
  /\ lastIp = "ipA"
  /\ pc["r1"] = "idle"
  /\ pc["r2"] = "respG" /\ rip["r2"] = "ipA"
  /\ globalTokens = 0
  /\ registry["ipA"].present /\ registry["ipA"].tokens = 0

\* a request whose goroutine leaves recoverPanic's deferred function after a panic
Recovering(q) == cpc[q] = "recoverPanic" /\ cpanic[q] /\ cpc'[q] = "metrics"

\* the other requests keep their response and their position
ChainFrame(q) ==
  \A o \in ChainReqs \ {q} :
    /\ cpc'[o] = cpc[o]
    /\ cstatus'[o] = cstatus[o]
    /\ cclose'[o] = cclose[o]
    /\ cpanic'[o] = cpanic[o]

\* C27: every panic below recoverPanic is caught in the request's own
\* goroutine: the client receives 500 with Connection: close, the error is
\* logged once, and the panic goes no further up the chain (no request is
\* unwinding a panic outside recoverPanic, the request goes on into the
\* deferred function of metrics, and no other request is touched).
C27_PanicAlwaysAnswered500 ==
  /\ [](\A q \in ChainReqs : cpanic[q] => cpc[q] = "recoverPanic")
  /\ [][\A q \in ChainReqs : Recovering(q) =>
          /\ cstatus'[q] = 500
          /\ cclose'[q]
          /\ panicLogs' = panicLogs + 1
          /\ ~cpanic'[q]
          /\ ChainFrame(q)]_vars

\* a panic before any header was answered 500 with Connection: close while
\* another request is still being served
C27_Witness ==
  /\ cpc["q1"] = "metrics"
  /\ cstatus["q1"] = 500
  /\ cclose["q1"]
  /\ ~cpanic["q1"]
  /\ panicLogs = 1
  /\ cpc["q2"] = "serve"

\* C28: with rate limiting on, a request that passes the global check finds a
\* token in the global bucket and takes exactly one, and none of its later
\* steps changes the global bucket: a request its own limiter rejects does
\* not give the token back. A request the global limiter refuses finds the
\* bucket empty and leaves it as it was. The answers follow: RejectedClient
\* and Allowed come only from requests that took their token, RejectedGlobal
\* only from requests that took none.
C28_GlobalTokenNotReturned ==
  [][\A r \in Reqs :
       shouldRateLimit =>
         /\ (pc[r] = "idle" /\ pc'[r] = "lock")
              => (globalTokens >= 1 /\ globalTokens' = globalTokens - 1)
         /\ (pc[r] = "idle" /\ pc'[r] = "respG")
              => (globalTokens = 0 /\ globalTokens' = globalTokens)
         /\ (pc[r] = "idle" /\ pc'[r] # "idle") => pc'[r] \in {"lock", "respG"}
         /\ (pc[r] # "idle" /\ pc'[r] # pc[r]) => globalTokens' = globalTokens
         /\ (pc[r] \notin PastGlobal /\ pc'[r] \in PastGlobal) => pc[r] = "lock"
         /\ (pc[r] # "idle" /\ pc'[r] = "idle")
              => outcome' = (CASE pc[r] = "respC" -> "RejectedClient"
                               [] pc[r] = "next" -> "Allowed"
                               [] OTHER -> "RejectedGlobal")
         /\ (pc[r] # "idle" /\ pc'[r] = "idle") => pc[r] \in {"respC", "next", "respG"}]_vars

\* C28 witness: after the burst a request of ipA took the last global token
\* and was answered RejectedClient, and the global bucket is still empty
C28_Witness ==
  /\ shouldRateLimit
  /\ now = 0
  /\ issued = MaxIssued - MaxAfterLoad + 1
  /\ outcome = "RejectedClient"
  /\ lastIp = "ipA"
  /\ \A r \in Reqs : pc[r] = "idle"
  /\ rexists["r2"]
  /\ registry["ipA"].present /\ registry["ipA"].tokens = 0
  /\ ~registry["ipB"].present
  /\ globalTokens = 0

\* the client of the request r that takes this step
StepClient(r) == IF pc[r] = "idle" THEN rip'[r] ELSE rip[r]

\* C29: no step of a request of client A changes the registry entry of
\* another client B (presence, token count and lastSeen of B are the same
\* before and after the step), and the client check looks at no other
\* client's entry: a request is rejected by the client limiter only when its
\* own client's bucket holds no token at that step. So requests from A alone
\* never make a request of B RejectedClient.
C29_OtherClientsUntouched ==
  /\ [][\A r \in Reqs :
          pc'[r] # pc[r]
            => \A other \in Clients \ {StepClient(r)} : registry'[other] = registry[other]]_vars
  /\ [][\A r \in Reqs :
          (pc[r] = "allow" /\ pc'[r] = "unlockR")
            => (registry[rip[r]].present /\ registry[rip[r]].tokens = 0)]_vars

\* C29 witness: after ipA's burst, which emptied ipA's bucket, the first
\* request of ipB was let through with a full bucket of its own, and ipA's
\* entry is as the burst left it
C29_Witness ==
  /\ shouldRateLimit
  /\ now = 0
  /\ outcome = "Allowed"
  /\ handled
  /\ lastIp = "ipB"
  /\ \A r \in Reqs : pc[r] = "idle"
  /\ registry["ipA"].present /\ registry["ipA"].tokens = 0 /\ registry["ipA"].lastSeen = 0
  /\ registry["ipB"].present
  /\ registry["ipB"].tokens = MaxIndividualBurstReq - 1
  /\ globalTokens = 0

\* the requests between the entry of metrics and the end of its deferred function
ChainInFlight == {q \in ChainReqs : cpc[q] # "idle"}

\* C30: metrics counts a request once as received, in the step that enters
\* the chain, and once as responded, in the step that leaves it through the
\* deferred function, whatever happened below (a 429, a recovered panic);
\* no other step changes either counter. In every reachable state
\* total_responses_sent <= total_requests_received and the difference is the
\* number of requests in flight.
C30_ReceivedAndResponded ==
  /\ [](/\ responded <= received
        /\ received - responded = Cardinality(ChainInFlight))
  /\ [][\A q \in ChainReqs :
          /\ (cpc[q] = "idle" /\ cpc'[q] # "idle")
               => (received' = received + 1 /\ responded' = responded)
          /\ (cpc[q] # "idle" /\ cpc'[q] = "idle")
               => (responded' = responded + 1 /\ received' = received)]_vars
  /\ [][(\A q \in ChainReqs : (cpc[q] = "idle") <=> (cpc'[q] = "idle"))
          => (received' = received /\ responded' = responded)]_vars

\* C30 witness: a request whose panic was recovered (500) and a rejected
\* request (429) have both left the chain, and both were counted as received
\* and as responded
C30_Witness ==
  /\ received = 2
  /\ responded = 2
  /\ panicLogs = 1
  /\ cpc["q1"] = "idle" /\ cstatus["q1"] = 500 /\ cclose["q1"]
  /\ cpc["q2"] = "idle" /\ cstatus["q2"] = 429

====
